---- MODULE Spec2Model ----
(***************************************************************************)
(* A model of riakasaurus.riak_object.RiakObject: the record's fields, its *)
(* index and link metadata, the population algorithm with its shared       *)
(* sibling list, and the transport operations store / reload / head /      *)
(* delete.                                                                 *)
(*                                                                         *)
(* Python objects are held in a heap: objs holds the RiakObject instances  *)
(* (an instance is its slot), lists holds the mutable list objects that    *)
(* records keep in _siblings, so that two records holding the same list id *)
(* hold the same list instance.  List id 0 is a fresh empty list: the code *)
(* never mutates an empty list in place.  The caller holds record 1 and    *)
(* reaches every other record through sibling lists; a record or list that *)
(* cannot be reached any more is garbage and its slot is free again.       *)
(* pc is the position of a get_siblings call between its transport reads;  *)
(* every other method runs from its call to its return in one step.        *)
(***************************************************************************)
EXTENDS Integers, Sequences, FiniteSets, TLC

VARIABLES objs, lists, lastOp, pc

vars == <<objs, lists, lastOp, pc>>

\* ------------------------------------------------------------------ bounds
MaxObj == 3
MaxContents == 2
MaxTags == 2
MaxIdx == 2
MaxLinks == 3

\* --------------------------------------------------------- Python values
\* A Python value: None, an integer, a string, or a decoded payload.
PyNone == [t |-> "none", i |-> 0, s |-> ""]
PyInt(n) == [t |-> "int", i |-> n, s |-> ""]
PyStr(x) == [t |-> "str", i |-> 0, s |-> x]
PyDec(x) == [t |-> "dec", i |-> 0, s |-> x]

\* Python truth value: None, 0 and "" are false.
Truthy(v) ==
    CASE v.t = "none" -> FALSE
      [] v.t = "int" -> v.i # 0
      [] v.t = "str" -> v.s # ""
      [] OTHER -> TRUE

\* ------------------------------------------------------ sequence helpers
\* list.index(x): the first position of x, 0 when x is not in the list.
IndexOf(seq, x) ==
    IF \E j \in 1..Len(seq) : seq[j] = x
    THEN CHOOSE j \in 1..Len(seq) : seq[j] = x /\ \A k \in 1..(j - 1) : seq[k] # x
    ELSE 0

\* x in list
Contains(seq, x) == IndexOf(seq, x) # 0

\* list.pop(j): the list without position j.
RemoveAt(seq, j) == [k \in 1..(Len(seq) - 1) |-> IF k < j THEN seq[k] ELSE seq[k + 1]]

\* list.remove(x): the list without the first occurrence of x.
RemoveFirst(seq, x) == IF Contains(seq, x) THEN RemoveAt(seq, IndexOf(seq, x)) ELSE seq

\* Sequences over S of length 0..n.
SeqUpTo(S, n) == UNION {[1..k -> S] : k \in 0..n}

\* --------------------------------------------------------------- metadata
\* RiakIndexEntry(field, value) with its equality: field and value both equal.
RiakIndexEntry(field, value) == [field |-> field, value |-> value]

\* RiakLink(bucket, key, tag); a link's bucket is the single bucket of the model.
RiakLink(key, tag) == [key |-> key, tag |-> tag]

\* RiakLink.isEqual: bucket, key and tag all equal.
isEqual(a, b) == a.key = b.key /\ a.tag = b.tag

\* The metadata dictionary: has* tells whether the key is in the dictionary.
Metadata(ctype, hasIndex, index, hasLinks, links) ==
    [ctype |-> ctype, hasIndex |-> hasIndex, index |-> index,
     hasLinks |-> hasLinks, links |-> links]

\* {MD_USERMETA: {}, MD_INDEX: []}
InitMetadata == Metadata("", TRUE, <<>>, FALSE, <<>>)

\* ----------------------------------------------------------------- heap
\* RiakObject.__init__
NewObject(key) ==
    [alive |-> TRUE, key |-> key, encode_data |-> TRUE, vclock |-> PyNone, data |-> PyNone,
     metadata |-> InitMetadata, links |-> <<>>, siblings |-> 0, exists |-> FALSE]

\* A slot of the heap that holds no record.
Free == [NewObject(PyNone) EXCEPT !.alive = FALSE]

ObjIds == 1..MaxObj
MaxList == MaxObj + 2
ListIds == 1..MaxList

\* calls is the sequence of transport calls the method has issued.
\* ret is the record the method returns, where the model reads it.
Heap(o, l) == [objs |-> o, lists |-> l, err |-> "", calls |-> <<>>, ret |-> 0]

\* The records of the heap.
Live(h) == {o \in ObjIds : h.objs[o].alive}

\* A list id no record holds and that has no content: a new list object.
FreshList(h) ==
    CHOOSE l \in ListIds :
        /\ h.lists[l] = <<>>
        /\ \A o \in Live(h) : h.objs[o].siblings # l
        /\ \A k \in 1..(l - 1) :
              h.lists[k] # <<>> \/ \E o \in Live(h) : h.objs[o].siblings = k

\* The heap with a new list object of the given content in FreshList(h).
AllocList(h, content) == [h EXCEPT !.lists[FreshList(h)] = content]

\* The slot of a new record.
FreshObject(h) == CHOOSE o \in ObjIds : ~h.objs[o].alive /\ \A k \in 1..(o - 1) : h.objs[k].alive

\* The records reachable from the records in S through sibling lists.
RECURSIVE Reach(_, _)
Reach(h, S) ==
    LET more == {x \in ObjIds : \E o \in S :
                    /\ h.objs[o].siblings # 0
                    /\ \E j \in 1..Len(h.lists[h.objs[o].siblings]) :
                          h.lists[h.objs[o].siblings][j] = x} IN
    IF more \subseteq S THEN S ELSE Reach(h, S \cup more)

\* Garbage collection: records the caller cannot reach and lists no reachable
\* record holds are gone.
Sweep(h) ==
    LET keep == Reach(h, {1})
        kept == [o \in ObjIds |-> IF o \in keep THEN h.objs[o] ELSE Free] IN
    [h EXCEPT !.objs = kept,
              !.lists = [l \in ListIds |->
                  IF \E o \in keep : h.objs[o].siblings = l THEN h.lists[l] ELSE <<>>]]

Raise(h, e) == [h EXCEPT !.err = e]

\* The method issues the transport call of the given name; vtag is the version
\* tag the call is scoped to, 0 for None.
TransportCall(name, vtag) == [name |-> name, vtag |-> vtag]
CallTag(h, name, vtag) == [h EXCEPT !.calls = Append(h.calls, TransportCall(name, vtag))]
Call(h, name) == CallTag(h, name, 0)

\* -------------------------------------------------------- record fields
\* RiakObject.set_metadata
set_metadata(h, o, metadata) == [h EXCEPT !.objs[o].metadata = metadata]

\* RiakObject.get_content_type
get_content_type(rec) ==
    IF rec.metadata.ctype # "" THEN rec.metadata.ctype
    ELSE IF rec.encode_data THEN "application/json" ELSE "application/octet-stream"

\* RiakObject.set_content_type
set_content_type(h, o, content_type) == [h EXCEPT !.objs[o].metadata.ctype = content_type]

\* bucket.get_decoder(content_type) is not None: the bucket decodes JSON only.
HasDecoder(content_type) == content_type = "application/json"

\* The decoder applied to an encoded payload.
Decode(data) == PyDec(data.s)

\* RiakObject.set_data
set_data(h, o, data) ==
    LET h1 == [h EXCEPT !.objs[o].data = data] IN
    IF h1.objs[o].metadata.ctype = ""
    THEN IF h1.objs[o].encode_data
         THEN set_content_type(h1, o, "application/json")
         ELSE set_content_type(h1, o, "application/octet-stream")
    ELSE h1

\* RiakObject.set_encoded_data
set_encoded_data(h, o, data) ==
    IF h.objs[o].encode_data
    THEN IF HasDecoder(get_content_type(h.objs[o]))
         THEN [h EXCEPT !.objs[o].data = Decode(data)]
         ELSE [h EXCEPT !.objs[o].data = data]
    ELSE [h EXCEPT !.objs[o].data = data]

\* ---------------------------------------------------------------- indexes
\* add_index without the membership test.
add_index_Always(h, o, field, value) ==
    LET rie == RiakIndexEntry(field, value)
        md == h.objs[o].metadata IN
    IF ~md.hasIndex THEN Raise(h, "KeyError")
    ELSE [h EXCEPT !.objs[o].metadata.index = Append(md.index, rie)]

\* RiakObject.add_index
add_index(h, o, field, value) ==
    LET rie == RiakIndexEntry(field, value)
        md == h.objs[o].metadata IN
    IF ~md.hasIndex THEN Raise(h, "KeyError")
    ELSE IF ~Contains(md.index, rie)
         THEN [h EXCEPT !.objs[o].metadata.index = Append(md.index, rie)]
         ELSE h

\* for rie in ries: if rie in index: index.remove(rie)
RECURSIVE RemoveEach(_, _)
RemoveEach(index, ries) ==
    IF ries = <<>> THEN index
    ELSE RemoveEach(RemoveFirst(index, Head(ries)), Tail(ries))

\* remove_index iterating over the list it removes from, not over a copy: with
\* no argument every second entry is skipped and stays.
remove_index_NoCopy(h, o, field, value) ==
    LET md == h.objs[o].metadata IN
    IF ~Truthy(field) /\ ~Truthy(value)
    THEN IF ~md.hasIndex THEN Raise(h, "KeyError")
         ELSE [h EXCEPT !.objs[o].metadata.index =
                  [k \in 1..(Len(md.index) \div 2) |-> md.index[2 * k]]]
    ELSE IF Truthy(field) /\ ~Truthy(value)
    THEN IF ~md.hasIndex THEN Raise(h, "KeyError")
         ELSE [h EXCEPT !.objs[o].metadata.index =
                  RemoveEach(md.index, SelectSeq(md.index, LAMBDA x : x.field = field))]
    ELSE IF Truthy(field) /\ Truthy(value)
    THEN IF ~md.hasIndex THEN Raise(h, "KeyError")
         ELSE [h EXCEPT !.objs[o].metadata.index =
                  RemoveEach(md.index, <<RiakIndexEntry(field, value)>>)]
    ELSE Raise(h, "Exception")

\* RiakObject.remove_index; field and value default to None.
remove_index(h, o, field, value) ==
    LET md == h.objs[o].metadata IN
    IF ~Truthy(field) /\ ~Truthy(value)
    THEN IF ~md.hasIndex THEN Raise(h, "KeyError")
         ELSE [h EXCEPT !.objs[o].metadata.index = RemoveEach(md.index, md.index)]
    ELSE IF Truthy(field) /\ ~Truthy(value)
    THEN IF ~md.hasIndex THEN Raise(h, "KeyError")
         ELSE [h EXCEPT !.objs[o].metadata.index =
                  RemoveEach(md.index, SelectSeq(md.index, LAMBDA x : x.field = field))]
    ELSE IF Truthy(field) /\ Truthy(value)
    THEN IF ~md.hasIndex THEN Raise(h, "KeyError")
         ELSE [h EXCEPT !.objs[o].metadata.index =
                  RemoveEach(md.index, <<RiakIndexEntry(field, value)>>)]
    ELSE Raise(h, "Exception")

\* RiakObject.set_indexes; indexes is a sequence of <<field, value>> pairs.
set_indexes(h, o, indexes) ==
    LET new_indexes == [k \in 1..Len(indexes) |-> RiakIndexEntry(indexes[k][1], indexes[k][2])] IN
    [h EXCEPT !.objs[o].metadata.index = new_indexes, !.objs[o].metadata.hasIndex = TRUE]

\* RiakObject.get_indexes()
get_indexes(rec) == rec.metadata.index

\* ------------------------------------------------------------------ links
\* RiakObject.get_links
get_links(rec) == IF rec.metadata.hasLinks THEN rec.metadata.links ELSE <<>>

\* RiakObject.remove_link
remove_link(h, o, oldlink) ==
    LET links == IF h.objs[o].metadata.hasLinks THEN h.objs[o].metadata.links ELSE <<>>
        a == SelectSeq(links, LAMBDA link : ~isEqual(link, oldlink)) IN
    [h EXCEPT !.objs[o].metadata.links = a, !.objs[o].metadata.hasLinks = TRUE]

\* add_link without the removal of the equal link.
add_link_NoRemove(h, o, key, tag) ==
    LET newlink == RiakLink(key, tag) IN
    [h EXCEPT !.objs[o].metadata.links = Append(get_links(h.objs[o]), newlink),
              !.objs[o].metadata.hasLinks = TRUE]

\* RiakObject.add_link; the target record is named by its key.
add_link(h, o, key, tag) ==
    LET newlink == RiakLink(key, tag)
        h1 == remove_link(h, o, newlink) IN
    [h1 EXCEPT !.objs[o].metadata.links = Append(h1.objs[o].metadata.links, newlink)]

\* --------------------------------------------------------------- siblings
\* A slot of a sibling list holds a record (its position in objs, positive)
\* or a version tag not yet fetched (negative).
IsObject(x) == x > 0

\* RiakObject.clear; _headers is an attribute no method reads.
clear(h, o) ==
    [h EXCEPT !.objs[o].links = <<>>, !.objs[o].data = PyNone,
              !.objs[o].exists = FALSE, !.objs[o].siblings = 0]

\* set_siblings keeping every list that is not empty.
set_siblings_KeepOne(h, o, lid) ==
    LET siblings == h.lists[lid]
        i == IndexOf(siblings, o)
        moved == IF i > 1 THEN <<o>> \o RemoveAt(siblings, i) ELSE siblings
        h1 == [h EXCEPT !.lists[lid] = moved] IN
    IF Len(moved) > 0
    THEN [h1 EXCEPT !.objs[o].siblings = lid]
    ELSE [h1 EXCEPT !.objs[o].siblings = 0]

\* set_siblings without the move of the record to index 0.
set_siblings_NoMove(h, o, lid) ==
    IF Len(h.lists[lid]) > 1
    THEN [h EXCEPT !.objs[o].siblings = lid]
    ELSE [h EXCEPT !.objs[o].siblings = 0]

\* set_siblings keeping a copy of the list it was given.
set_siblings_Copy(h, o, lid) ==
    LET siblings == h.lists[lid]
        i == IndexOf(siblings, o)
        moved == IF i > 1 THEN <<o>> \o RemoveAt(siblings, i) ELSE siblings
        h1 == [h EXCEPT !.lists[lid] = moved]
        own == FreshList(h1) IN
    IF Len(moved) > 1
    THEN [AllocList(h1, moved) EXCEPT !.objs[o].siblings = own]
    ELSE [h1 EXCEPT !.objs[o].siblings = 0]

\* RiakObject.set_siblings; siblings is the list object with id lid, which the
\* method reorders in place.
set_siblings(h, o, lid) ==
    LET siblings == h.lists[lid]
        i == IndexOf(siblings, o)
        moved == IF i > 1 THEN <<o>> \o RemoveAt(siblings, i) ELSE siblings
        h1 == [h EXCEPT !.lists[lid] = moved] IN
    IF Len(moved) > 1
    THEN [h1 EXCEPT !.objs[o].siblings = lid]
    ELSE [h1 EXCEPT !.objs[o].siblings = 0]

\* RiakObject.has_siblings / get_sibling_count
get_sibling_count(h, o) == IF h.objs[o].siblings = 0 THEN 0 ELSE Len(h.lists[h.objs[o].siblings])
has_siblings(h, o) == get_sibling_count(h, o) > 0

\* The list a record holds in _siblings.
SiblingsOf(h, o) == IF h.objs[o].siblings = 0 THEN <<>> ELSE h.lists[h.objs[o].siblings]

\* populate: for (metadata, data) in contents: sibling = copy.copy(self); ...
\* Each new record is appended to objs and to the list lid.
RECURSIVE MakeSiblings(_, _, _, _)
MakeSiblings(h, o, lid, contents) ==
    IF contents = <<>> THEN h
    ELSE LET sibling == FreshObject(h)
             h1 == [h EXCEPT !.objs[sibling] = h.objs[o]]
             h2 == set_metadata(h1, sibling, Head(contents).metadata)
             h3 == set_encoded_data(h2, sibling, Head(contents).data)
             h4 == [h3 EXCEPT !.lists[lid] = Append(h3.lists[lid], sibling)] IN
         MakeSiblings(h4, o, lid, Tail(contents))

\* populate: for sibling in siblings: sibling.set_siblings(siblings).  The list
\* iterator reads position idx of the list as it is at that moment.
RECURSIVE LinkSiblings(_, _, _)
LinkSiblings(h, lid, idx) ==
    IF idx > Len(h.lists[lid]) THEN h
    ELSE LinkSiblings(set_siblings(h, h.lists[lid][idx], lid), lid, idx + 1)

\* What a transport call gives back: None, a list of version tags, a
\* (vclock, contents) tuple, anything else (a string), put_new's
\* (key, vclock, metadata), or the failure of the call.
NotFound == [kind |-> "none", vclock |-> PyNone, contents |-> <<>>, tags |-> <<>>, key |-> PyNone]
TagList(tags) == [NotFound EXCEPT !.kind = "list", !.tags = tags]
Tuple(vclock, contents) == [NotFound EXCEPT !.kind = "tuple", !.vclock = vclock, !.contents = contents]
Other == [NotFound EXCEPT !.kind = "other"]
Content(metadata, data) == [metadata |-> metadata, data |-> data]
PutNew(key, vclock, metadata) ==
    [NotFound EXCEPT !.kind = "new", !.key = key, !.vclock = vclock,
                     !.contents = <<Content(metadata, PyNone)>>]
Failure == [NotFound EXCEPT !.kind = "fail"]

\* populate returning normally on a result of an unknown type.
populate_IgnoreOther(h, o, Result) ==
    LET h0 == clear(h, o) IN
    IF Result.kind \in {"none", "other"} THEN h0
    ELSE IF Result.kind = "list"
    THEN LET lid == FreshList(h0) IN
         set_siblings(AllocList(h0, Result.tags), o, lid)
    ELSE LET h1 == [h0 EXCEPT !.objs[o].vclock = Result.vclock] IN
         IF Len(Result.contents) > 0
         THEN LET first == Head(Result.contents)
                  metadata == IF ~first.metadata.hasIndex
                              THEN [first.metadata EXCEPT !.hasIndex = TRUE, !.index = <<>>]
                              ELSE first.metadata
                  h2 == set_metadata([h1 EXCEPT !.objs[o].exists = TRUE], o, metadata)
                  h3 == IF Truthy(first.data) THEN set_encoded_data(h2, o, first.data) ELSE h2
                  lid == FreshList(h3)
                  h4 == MakeSiblings(AllocList(h3, <<o>>), o, lid, Tail(Result.contents)) IN
              LinkSiblings(h4, lid, 1)
         ELSE h1

\* RiakObject.populate
populate(h, o, Result) ==
    LET h0 == clear(h, o) IN
    IF Result.kind = "none" THEN h0
    ELSE IF Result.kind = "list"
    THEN LET lid == FreshList(h0) IN
         set_siblings(AllocList(h0, Result.tags), o, lid)
    ELSE IF Result.kind = "tuple"
    THEN LET h1 == [h0 EXCEPT !.objs[o].vclock = Result.vclock] IN
         IF Len(Result.contents) > 0
         THEN LET first == Head(Result.contents)
                  metadata == IF ~first.metadata.hasIndex
                              THEN [first.metadata EXCEPT !.hasIndex = TRUE, !.index = <<>>]
                              ELSE first.metadata
                  h2 == set_metadata([h1 EXCEPT !.objs[o].exists = TRUE], o, metadata)
                  h3 == IF Truthy(first.data) THEN set_encoded_data(h2, o, first.data) ELSE h2
                  lid == FreshList(h3)
                  h4 == MakeSiblings(AllocList(h3, <<o>>), o, lid, Tail(Result.contents)) IN
              LinkSiblings(h4, lid, 1)
         ELSE h1
    ELSE Raise(h0, "RiakError")

\* ------------------------------------------------------------- operations
\* Each operation is the method from its call to its return; Result is what
\* the transport call at its yield gave back.  A failed call raises at the
\* yield and the rest of the method does not run.

\* store issuing put whether or not the record has a key.
store_AlwaysPut(h, o, Result) ==
    LET h0 == Call(h, "put") IN
    IF Result.kind = "fail" THEN Raise(h0, "TransportError")
    ELSE IF h.objs[o].key = PyNone
    THEN LET h1 == [h0 EXCEPT !.objs[o].exists = TRUE, !.objs[o].key = Result.key,
                              !.objs[o].vclock = Result.vclock] IN
         set_metadata(h1, o, Result.contents[1].metadata)
    ELSE IF Result.kind # "none" THEN populate(h0, o, Result) ELSE h0

\* RiakObject.store
store(h, o, Result) ==
    LET h0 == Call(h, IF h.objs[o].key = PyNone THEN "put_new" ELSE "put") IN
    IF Result.kind = "fail" THEN Raise(h0, "TransportError")
    ELSE IF h.objs[o].key = PyNone
    THEN LET h1 == [h0 EXCEPT !.objs[o].exists = TRUE, !.objs[o].key = Result.key,
                              !.objs[o].vclock = Result.vclock] IN
         set_metadata(h1, o, Result.contents[1].metadata)
    ELSE IF Result.kind # "none" THEN populate(h0, o, Result) ELSE h0

\* reload clearing the record before the transport call.
reload_ClearFirst(h, o, vtag, Result) ==
    LET h1 == clear(CallTag(h, "get", vtag), o) IN
    IF Result.kind = "fail" THEN Raise(h1, "TransportError")
    ELSE IF Result.kind # "none" THEN populate(h1, o, Result) ELSE h1

\* RiakObject.reload; vtag defaults to None.
reload(h, o, vtag, Result) ==
    LET h0 == CallTag(h, "get", vtag) IN
    IF Result.kind = "fail" THEN Raise(h0, "TransportError")
    ELSE LET h1 == clear(h0, o) IN
         IF Result.kind # "none" THEN populate(h1, o, Result) ELSE h1

\* RiakObject.head
head(h, o, Result) ==
    LET h0 == Call(h, "head") IN
    IF Result.kind = "fail" THEN Raise(h0, "TransportError")
    ELSE LET h1 == clear(h0, o) IN
         IF Result.kind # "none" THEN populate(h1, o, Result) ELSE h1

\* delete without the clear after the transport call.
delete_NoClear(h, o, Result) ==
    LET h0 == Call(h, "delete") IN
    IF Result.kind = "fail" THEN Raise(h0, "TransportError")
    ELSE h0

\* RiakObject.delete
delete(h, o, Result) ==
    LET h0 == Call(h, "delete") IN
    IF Result.kind = "fail" THEN Raise(h0, "TransportError")
    ELSE clear(h0, o)

\* get_sibling without the assignment of the new record to slot i.
get_sibling_NoStore(h, o, i, Result) ==
    IF i >= Len(SiblingsOf(h, o)) THEN Raise(h, "IndexError")
    ELSE IF IsObject(SiblingsOf(h, o)[i + 1])
    THEN [h EXCEPT !.ret = SiblingsOf(h, o)[i + 1]]
    ELSE LET lid == h.objs[o].siblings
             vtag == h.lists[lid][i + 1]
             obj == FreshObject(h)
             h1 == [h EXCEPT !.objs[obj] = NewObject(h.objs[o].key)]
             h2 == reload(h1, obj, vtag, Result) IN
         IF h2.err # "" THEN h2
         ELSE [set_siblings(h2, obj, lid) EXCEPT !.ret = obj]

\* RiakObject.get_sibling; Result is what the transport gives the reload of
\* the new record.  The slot i of Python is the position i + 1 of the sequence.
get_sibling(h, o, i, Result) ==
    IF i >= Len(SiblingsOf(h, o)) THEN Raise(h, "IndexError")
    ELSE IF IsObject(SiblingsOf(h, o)[i + 1])
    THEN [h EXCEPT !.ret = SiblingsOf(h, o)[i + 1]]
    ELSE LET lid == h.objs[o].siblings
             vtag == h.lists[lid][i + 1]
             obj == FreshObject(h)
             h1 == [h EXCEPT !.objs[obj] = NewObject(h.objs[o].key)]
             h2 == reload(h1, obj, vtag, Result) IN
         IF h2.err # "" THEN h2
         ELSE LET h3 == [h2 EXCEPT !.lists[lid][i + 1] = obj]
                  h4 == set_siblings(h3, obj, lid) IN
              [h4 EXCEPT !.ret = obj]

\* ------------------------------------------------------------------ inputs
Fields == {PyStr("f"), PyStr("g")}
Values == {PyInt(0), PyInt(1), PyStr("")}
Pairs == {<<PyStr("f"), v>> : v \in Values} \cup {<<PyStr("g"), PyInt(1)>>}
Entries == {RiakIndexEntry(p[1], p[2]) : p \in Pairs}

VClocks == {PyStr("v1")}

\* Metadata as the transport decodes it: with and without the index key.
M1 == Metadata("application/json", TRUE, <<RiakIndexEntry(PyStr("f"), PyInt(1))>>, FALSE, <<>>)
M2 == Metadata("text/plain", FALSE, <<>>, TRUE, <<>>)

Contents == {Content(M1, PyStr("e1")), Content(M2, PyStr(""))}
\* The lists of version tags -1, -2, ... the transport answers with.
TagLists == {[j \in 1..k |-> 0 - j] : k \in 0..MaxTags}

Results ==
    {NotFound, Other}
    \cup {TagList(t) : t \in TagLists}
    \cup {Tuple(v, c) : v \in VClocks, c \in SeqUpTo(Contents, MaxContents)}

\* Results whose single version carries a given index sequence.
IdxResults ==
    {NotFound}
    \cup {Tuple(PyStr("v1"), <<Content([M1 EXCEPT !.index = ix], PyStr("e1"))>>) :
            ix \in SeqUpTo(Entries, MaxIdx)}
    \cup {Tuple(PyStr("v1"), <<Content(M2, PyStr("e1"))>>)}

\* Results of one kind of content: not found, version tags, one version, a conflict.
SibResults ==
    {NotFound}
    \cup {TagList(t) : t \in TagLists}
    \cup {Tuple(PyStr("v1"), [j \in 1..n |-> Content(M1, PyStr("e1"))]) : n \in 1..MaxContents}

\* What the transport answers an operation on a sibling record with.
PeerResults == {NotFound, Tuple(PyStr("v1"), <<Content(M1, PyStr("e1"))>>)}

\* What the transport answers the read of one version with.
SiblingResults == {NotFound, Failure, Tuple(PyStr("v1"), <<Content(M1, PyStr("e1"))>>)}

\* The records a result of n contents adds to the heap.
NewRecords(Result) == IF Len(Result.contents) > 1 THEN Len(Result.contents) - 1 ELSE 0

\* ----------------------------------------------------------------- actions
\* The operation completed last, with its arguments and the exception it raised.
Op(name, o) ==
    [op |-> name, obj |-> o, res |-> NotFound, err |-> "", field |-> PyNone,
     value |-> PyNone, pairs |-> <<>>, key |-> PyNone, lid |-> 0, calls |-> <<>>,
     i |-> 0, ret |-> 0]

\* No get_siblings call is in progress.
Idle == [op |-> "idle", obj |-> 0, i |-> 0, n |-> 0, calls |-> <<>>, tags |-> <<>>]

Init ==
    /\ objs \in {[o \in ObjIds |-> IF o = 1 THEN NewObject(k) ELSE Free] :
                  k \in {PyNone, PyStr("k")}}
    /\ lists = [l \in ListIds |-> <<>>]
    /\ lastOp = Op("init", 0)
    /\ pc = Idle

\* A synchronous method leaves the heap h; op describes the call.
Commit(h, op) ==
    /\ pc = Idle /\ pc' = pc
    /\ objs' = Sweep(h).objs
    /\ lists' = Sweep(h).lists
    /\ lastOp' = [op EXCEPT !.err = h.err, !.calls = h.calls, !.ret = h.ret]

Here == Heap(objs, lists)
Records == Live(Here)

SetData(o, data) ==
    /\ Commit(set_data(Here, o, data), [Op("set_data", o) EXCEPT !.value = data])

\* add_index while the sequence has room, or with an entry it holds.
AddIndex(o, field, value) ==
    /\ \/ Len(objs[o].metadata.index) < MaxIdx
       \/ Contains(objs[o].metadata.index, RiakIndexEntry(field, value))
    /\ Commit(add_index(Here, o, field, value),
              [Op("add_index", o) EXCEPT !.field = field, !.value = value])

RemoveIndex(o, field, value) ==
    /\ Commit(remove_index(Here, o, field, value),
              [Op("remove_index", o) EXCEPT !.field = field, !.value = value])

SetIndexes(o, indexes) ==
    /\ Commit(set_indexes(Here, o, indexes), [Op("set_indexes", o) EXCEPT !.pairs = indexes])

AddLink(o, key, tag) ==
    /\ Len(get_links(objs[o])) < MaxLinks
    /\ Commit(add_link(Here, o, key, tag),
              [Op("add_link", o) EXCEPT !.key = key, !.value = tag])

RemoveLink(o, key, tag) ==
    /\ Commit(remove_link(Here, o, RiakLink(key, tag)),
              [Op("remove_link", o) EXCEPT !.key = key, !.value = tag])

Populate(o, Result) ==
    /\ Cardinality(Records) + NewRecords(Result) <= MaxObj
    /\ Result.kind \notin {"new", "fail"}
    /\ Commit(populate(Here, o, Result), [Op("populate", o) EXCEPT !.res = Result])

\* set_siblings called with a list that some record holds.
SetSiblings(o, lid) ==
    /\ \E p \in Records : objs[p].siblings = lid
    /\ Commit(set_siblings(Here, o, lid), [Op("set_siblings", o) EXCEPT !.lid = lid])

\* put_new answers a store of a record without a key, put one with a key.
Store(o, Result) ==
    /\ Result.kind # "fail" => ((Result.kind = "new") <=> (objs[o].key = PyNone))
    /\ Cardinality(Records) + NewRecords(Result) <= MaxObj
    /\ Commit(store(Here, o, Result), [Op("store", o) EXCEPT !.res = Result])

Reload(o, Result) ==
    /\ Cardinality(Records) + NewRecords(Result) <= MaxObj
    /\ Commit(reload(Here, o, 0, Result), [Op("reload", o) EXCEPT !.res = Result])

Head_(o, Result) ==
    /\ Cardinality(Records) + NewRecords(Result) <= MaxObj
    /\ Commit(head(Here, o, Result), [Op("head", o) EXCEPT !.res = Result])

Delete(o, Result) ==
    /\ Commit(delete(Here, o, Result), [Op("delete", o) EXCEPT !.res = Result])

\* get_sibling(i); the transport is asked only when slot i holds a version tag.
GetSibling(o, i, Result) ==
    /\ i < get_sibling_count(Here, o)
    /\ IF IsObject(SiblingsOf(Here, o)[i + 1]) THEN Result = NotFound
       ELSE Cardinality(Records) + 1 + NewRecords(Result) <= MaxObj
    /\ Commit(get_sibling(Here, o, i, Result),
              [Op("get_sibling", o) EXCEPT !.i = i, !.res = Result])

\* The version tags of the result the record was populated from by the
\* operation completed last, if that result was a list of version tags.
PopulatedFromTags ==
    IF /\ lastOp.op \in {"populate", "reload"} /\ lastOp.err = ""
       /\ lastOp.res.kind = "list"
    THEN lastOp.res.tags ELSE <<>>

\* get_siblings up to its loop: range(self.get_sibling_count()) is evaluated
\* once.  The call starts when the heap has room for the records it may make.
GetSiblingsCall(o) ==
    /\ pc = Idle
    /\ Cardinality(Records)
         + Cardinality({j \in 1..Len(SiblingsOf(Here, o)) : ~IsObject(SiblingsOf(Here, o)[j])})
         <= MaxObj
    /\ pc' = [op |-> "get_siblings", obj |-> o, i |-> 0, n |-> get_sibling_count(Here, o),
              calls |-> <<>>, tags |-> PopulatedFromTags]
    /\ UNCHANGED <<objs, lists, lastOp>>

\* One turn of the loop: b = yield self.get_sibling(i, r).  An exception of
\* get_sibling leaves get_siblings.  g is the heap get_sibling leaves and h
\* that heap without its garbage.
GetSiblingsStep(Result) ==
    /\ pc.op = "get_siblings" /\ pc.i < pc.n
    /\ IsObject(SiblingsOf(Here, pc.obj)[pc.i + 1]) => Result = NotFound
    /\ \E g \in {get_sibling(Here, pc.obj, pc.i, Result)} : \E h \in {Sweep(g)} :
       /\ objs' = h.objs
       /\ lists' = h.lists
       /\ IF h.err # ""
          THEN /\ pc' = Idle
               /\ lastOp' = [Op("get_siblings", pc.obj) EXCEPT
                                !.err = h.err, !.calls = pc.calls \o h.calls]
          ELSE /\ pc' = [pc EXCEPT !.i = pc.i + 1, !.calls = pc.calls \o h.calls]
               /\ UNCHANGED lastOp

\* defer.returnValue(self._siblings)
GetSiblingsReturn ==
    /\ pc.op = "get_siblings" /\ pc.i = pc.n
    /\ pc' = Idle
    /\ lastOp' = [Op("get_siblings", pc.obj) EXCEPT
                     !.calls = pc.calls, !.lid = objs[pc.obj].siblings]
    /\ UNCHANGED <<objs, lists>>

\* ---------------------------------------------------------- specifications
NewKeys == {PutNew(PyStr("k"), v, m) : v \in VClocks, m \in {M1, M2}}

\* set_data, populate and the transport operations on the record the caller
\* holds, and set_siblings on every record, with a list that some record holds.
Next ==
    \/ SetData(1, PyStr("x"))
    \/ \E r \in Results : Populate(1, r)
    \/ \E o \in Records : \E l \in ListIds : SetSiblings(o, l)
    \/ \E r \in Results \cup NewKeys \cup {Failure} : Store(1, r)
    \/ \E r \in Results \cup {Failure} : Reload(1, r)
    \/ \E r \in Results \cup {Failure} : Head_(1, r)
    \/ \E r \in {NotFound, Other, Failure} : Delete(1, r)

Spec == Init /\ [][Next]_vars

\* The operations that set, replace or read sibling lists: populate and the
\* transport operations on the record the caller holds, set_siblings and
\* get_sibling on every record.
NextSib ==
    \/ \E r \in SibResults : Populate(1, r)
    \/ \E o \in Records : \E l \in ListIds : SetSiblings(o, l)
    \/ \E r \in SibResults \cup {PutNew(PyStr("k"), PyStr("v1"), M1), Failure} : Store(1, r)
    \/ \E r \in SibResults \cup {Failure} : Reload(1, r)
    \/ \E r \in SibResults \cup {Failure} : Head_(1, r)
    \/ \E r \in {NotFound, Failure} : Delete(1, r)
    \/ \E o \in Records : \E i \in 0..(MaxTags - 1) : \E r \in SiblingResults :
          GetSibling(o, i, r)

SpecSib == Init /\ [][NextSib]_vars

\* get_siblings and get_sibling on a record populated or reloaded.  Every
\* transport read is answered, by a result or by a failure, and the reactor
\* runs a generator whose read was answered: the loop of get_siblings is
\* weakly fair.
NextGet ==
    \/ \E r \in SibResults : Populate(1, r)
    \/ \E r \in SibResults \cup {Failure} : Reload(1, r)
    \/ \E i \in 0..(MaxTags - 1) : \E r \in SiblingResults : GetSibling(1, i, r)
    \/ GetSiblingsCall(1)
    \/ \E r \in SiblingResults : GetSiblingsStep(r)
    \/ GetSiblingsReturn

SpecGet ==
    /\ Init /\ [][NextGet]_vars
    /\ WF_vars(\E r \in SiblingResults : GetSiblingsStep(r))
    /\ WF_vars(GetSiblingsReturn)

\* The caller keeps the records get_sibling and populate gave it and runs
\* the transport operations on any of them.
NextPeer ==
    \/ \E r \in SibResults : Populate(1, r)
    \/ \E o \in Records : \E i \in 0..(MaxTags - 1) : \E r \in SiblingResults :
          GetSibling(o, i, r)
    \/ \E o \in Records : \E r \in PeerResults \cup {Failure} : Reload(o, r)
    \/ \E o \in Records : \E r \in PeerResults \cup {Failure} : Head_(o, r)
    \/ \E o \in Records :
          \E r \in PeerResults \cup {PutNew(PyStr("k"), PyStr("v1"), M1), Failure} : Store(o, r)
    \/ \E o \in Records : \E r \in {NotFound, Failure} : Delete(o, r)

SpecPeer == Init /\ [][NextPeer]_vars

\* The index operations on one record.
NextIdx ==
    \/ \E p \in Pairs : AddIndex(1, p[1], p[2])
    \/ \E f \in Fields \cup {PyNone, PyStr("")} : \E v \in Values \cup {PyNone} :
          RemoveIndex(1, f, v)
    \/ \E ix \in SeqUpTo(Pairs, MaxIdx) : SetIndexes(1, ix)
    \/ \E r \in IdxResults : Populate(1, r)

SpecIdx == Init /\ [][NextIdx]_vars

\* The link operations on one record.
LinkKeys == {PyStr("X"), PyStr("Y")}
LinkTags == {PyNone, PyStr("t1"), PyStr("t2")}

NextLink ==
    \/ \E k \in LinkKeys : \E t \in LinkTags : AddLink(1, k, t)
    \/ \E k \in LinkKeys : \E t \in LinkTags : RemoveLink(1, k, t)

SpecLink == Init /\ [][NextLink]_vars

\* ------------------------------------------------------------------ claims
Count(seq, x) == Cardinality({j \in 1..Len(seq) : seq[j] = x})
NoDuplicates(seq) == \A j, k \in 1..Len(seq) : j # k => seq[j] # seq[k]
Others(seq, x) == SelectSeq(seq, LAMBDA y : y # x)

\* The last operation was a populate of a tuple result of at least two contents.
PopulatedConflict ==
    /\ lastOp.op = "populate" /\ lastOp.err = ""
    /\ lastOp.res.kind = "tuple" /\ Len(lastOp.res.contents) >= 2

\* C1: after populate of a tuple result with n >= 2 contents on record R,
\* R.has_siblings() is true, R.get_sibling_count() = n and R.get_sibling(0) is R.
C1_SelfAtIndexZero ==
    PopulatedConflict =>
        /\ has_siblings(Here, lastOp.obj)
        /\ get_sibling_count(Here, lastOp.obj) = Len(lastOp.res.contents)
        /\ get_sibling(Here, lastOp.obj, 0, NotFound).ret = lastOp.obj

\* C2: after head completes with a tuple result whose first pair carries a
\* non-null payload, the payload is still null, and the metadata and the vector
\* clock are those of the response.
C2_HeadLeavesPayloadNull ==
    (/\ lastOp.op = "head" /\ lastOp.err = ""
     /\ lastOp.res.kind = "tuple" /\ Len(lastOp.res.contents) >= 1
     /\ lastOp.res.contents[1].data # PyNone)
    => /\ objs[lastOp.obj].data = PyNone
       /\ objs[lastOp.obj].vclock = lastOp.res.vclock
       /\ objs[lastOp.obj].metadata =
             [lastOp.res.contents[1].metadata EXCEPT !.hasIndex = TRUE]

\* What a caller reads from a record: its fields, and for each slot of its
\* sibling list the version tag or the fields of the record in it.
View(h, o) ==
    [vclock |-> h.objs[o].vclock, metadata |-> h.objs[o].metadata,
     data |-> h.objs[o].data, exists |-> h.objs[o].exists,
     siblings |-> [j \in 1..Len(SiblingsOf(h, o)) |->
        LET x == SiblingsOf(h, o)[j] IN
        IF IsObject(x)
        THEN [tag |-> 0, self |-> x = o, vclock |-> h.objs[x].vclock,
              metadata |-> h.objs[x].metadata, data |-> h.objs[x].data,
              exists |-> h.objs[x].exists]
        ELSE [tag |-> x, self |-> FALSE, vclock |-> PyNone, metadata |-> InitMetadata,
              data |-> PyNone, exists |-> FALSE]]]

\* A heap with one newly constructed record of the given key.
FreshHeap(key) ==
    Heap([o \in ObjIds |-> IF o = 1 THEN NewObject(key) ELSE Free], [l \in ListIds |-> <<>>])

\* C3: after reload completes the record's vector clock, metadata, payload,
\* exists flag and sibling list are determined by the response alone: the
\* record ends as a newly constructed record of the same key ends on the same
\* response.
C3_ReloadDeterminedByResponse ==
    (lastOp.op = "reload" /\ lastOp.err = "")
    => View(Here, lastOp.obj)
         = View(reload(FreshHeap(objs[lastOp.obj].key), 1, 0, lastOp.res), 1)

\* C4: when the transport call of store, reload, head or delete fails, the
\* heap (every field of the record and the sibling lists) is as before the call.
C4_FailureLeavesRecord ==
    [][lastOp'.err = "TransportError" => (objs' = objs /\ lists' = lists)]_vars

\* A transport failure hit a record that exists and holds a sibling list.
C4_Witness ==
    /\ lastOp.err = "TransportError" /\ lastOp.op = "reload"
    /\ objs[lastOp.obj].exists /\ objs[lastOp.obj].siblings # 0

\* C5: after populate of a tuple result with n >= 2 contents, the populated
\* record and the n - 1 records made for the remaining contents all hold the
\* same list instance, which has these n records as its slots.
C5_OneSharedList ==
    PopulatedConflict =>
        LET l == objs[lastOp.obj].siblings IN
        /\ l # 0
        /\ Len(lists[l]) = Len(lastOp.res.contents)
        /\ NoDuplicates(lists[l])
        /\ \E j \in 1..Len(lists[l]) : lists[l][j] = lastOp.obj
        /\ \A j \in 1..Len(lists[l]) :
              /\ IsObject(lists[l][j])
              /\ objs[lists[l][j]].alive
              /\ objs[lists[l][j]].siblings = l

\* A populate of MaxContents versions: the heap holds the record and its siblings.
C5_Witness ==
    /\ PopulatedConflict
    /\ Len(lastOp.res.contents) = MaxContents
    /\ Cardinality({o \in ObjIds : objs[o].alive}) = MaxContents

\* C6: after delete completes without a transport failure, exists() is false,
\* the payload is null and the sibling list is empty.
C6_DeleteClears ==
    (lastOp.op = "delete" /\ lastOp.err = "")
    => /\ ~objs[lastOp.obj].exists
       /\ objs[lastOp.obj].data = PyNone
       /\ SiblingsOf(Here, lastOp.obj) = <<>>
       /\ get_sibling_count(Here, lastOp.obj) = 0

\* A delete answered with an unexpected value, on a record populated before.
C6_Witness ==
    /\ lastOp.op = "delete" /\ lastOp.err = "" /\ lastOp.res = Other
    /\ objs[lastOp.obj].vclock # PyNone
    /\ objs[lastOp.obj].metadata = M1

\* Two add_link calls in a row on the same record and the same target.
AddLinkTwice ==
    /\ lastOp.op = "add_link" /\ lastOp'.op = "add_link"
    /\ lastOp'.obj = lastOp.obj /\ lastOp'.key = lastOp.key

LinksTo(rec, key) == SelectSeq(get_links(rec), LAMBDA l : l.key = key)

\* C7 as stated: add_link(X, t1) followed by add_link(X, t2) leaves exactly one
\* link to X, and its tag is t2.
C7_OneLinkPerTarget ==
    [][AddLinkTwice =>
        LinksTo(objs'[lastOp'.obj], lastOp'.key) = <<RiakLink(lastOp'.key, lastOp'.value)>>]_vars

\* C7 amended: add_link(X, t1) followed by add_link(X, t2) leaves exactly one
\* link equal to (X, t2), as the last link, and keeps the link (X, t1): only a
\* link with the same tag is replaced, so for t1 # t2 there are two links to X.
C7_ReplacesEqualLinkOnly ==
    [][AddLinkTwice =>
        LET links == get_links(objs'[lastOp'.obj])
            new == RiakLink(lastOp'.key, lastOp'.value)
            old == RiakLink(lastOp.key, lastOp.value) IN
        /\ Count(links, new) = 1
        /\ links[Len(links)] = new
        /\ Count(links, old) = 1
        /\ old # new => Len(LinksTo(objs'[lastOp'.obj], lastOp'.key)) >= 2
        /\ Others(links, new) = Others(get_links(objs[lastOp.obj]), new)]_vars

\* add_link(X, "t2") was the last call and the links to X are (X, "t1"), (X, "t2").
C7_Witness ==
    /\ lastOp.op = "add_link" /\ lastOp.key = PyStr("X") /\ lastOp.value = PyStr("t2")
    /\ LinksTo(objs[1], PyStr("X")) = <<RiakLink(PyStr("X"), PyStr("t1")), RiakLink(PyStr("X"), PyStr("t2"))>>

\* C8 as stated: in every state reachable by add_index, remove_index,
\* set_indexes and populate, the index sequence has no two equal entries.
C8_NoDuplicateIndexes == \A o \in ObjIds : NoDuplicates(objs[o].metadata.index)

\* The index sequence an operation was given, when it was given one.
GivenIndexes(op) ==
    IF op.op = "set_indexes"
    THEN [k \in 1..Len(op.pairs) |-> RiakIndexEntry(op.pairs[k][1], op.pairs[k][2])]
    ELSE IF op.op = "populate" /\ op.res.kind = "tuple" /\ Len(op.res.contents) > 0
    THEN op.res.contents[1].metadata.index
    ELSE <<>>

\* C8 amended: add_index and remove_index never make two equal entries, and
\* set_indexes and populate install the sequence they are given: a step from a
\* state without duplicates, given no duplicates, ends without duplicates.
C8_NoNewDuplicates ==
    [][(NoDuplicates(objs[1].metadata.index) /\ NoDuplicates(GivenIndexes(lastOp')))
        => NoDuplicates(objs'[1].metadata.index)]_vars

\* add_index was the last call and the index sequence is full, without duplicates.
C8_Witness ==
    /\ lastOp.op = "add_index" /\ lastOp.err = ""
    /\ Len(objs[1].metadata.index) = MaxIdx
    /\ NoDuplicates(objs[1].metadata.index)

\* C9: remove_index(field, value) with a string field and a string or integer
\* value (0 and "" included) removes the entry (field, value) and leaves every
\* other entry in place.
C9_RemovesExactEntry ==
    [][(lastOp'.op = "remove_index" /\ lastOp'.field \in Fields /\ lastOp'.value \in Values)
        => LET e == RiakIndexEntry(lastOp'.field, lastOp'.value) IN
           /\ Others(objs'[1].metadata.index, e) = Others(objs[1].metadata.index, e)
           /\ NoDuplicates(objs[1].metadata.index) => ~Contains(objs'[1].metadata.index, e)]_vars

\* C10: remove_index with a value and no field raises the usage error for
\* every value (0 and "" included) and leaves the index sequence unchanged.
C10_ValueWithoutFieldFails ==
    [][(lastOp'.op = "remove_index" /\ lastOp'.field = PyNone /\ lastOp'.value # PyNone)
        => (lastOp'.err = "Exception"
            /\ objs'[1].metadata.index = objs[1].metadata.index)]_vars

\* C11: populate on a result that is neither None, a list of version tags nor
\* a tuple (a string, for one) raises RiakError; it never returns normally.
C11_UnknownResultFails ==
    (lastOp.op = "populate" /\ lastOp.res.kind = "other") => lastOp.err = "RiakError"

\* populate was given a string on a record that existed with a sibling list:
\* the call raised, after the clear at its start.
C11_Witness ==
    /\ lastOp.op = "populate" /\ lastOp.res = Other /\ lastOp.err = "RiakError"
    /\ objs[lastOp.obj].vclock # PyNone /\ ~objs[lastOp.obj].exists

\* What the record's decoding makes of the encoded payload d under metadata m.
DecodingOf(rec, m, d) ==
    IF rec.encode_data /\ HasDecoder(get_content_type([rec EXCEPT !.metadata = m]))
    THEN Decode(d) ELSE d

\* C12: after populate from (v, [(m, d)]), the empty payload included,
\* vclock() is v, get_metadata() is m (the dict of the response, which by then
\* has an index key), get_data() is the decoding of d, exists() is true and
\* the sibling list is empty, whatever the record held before.
C12_RoundTrip ==
    (/\ lastOp.op = "populate" /\ lastOp.err = ""
     /\ lastOp.res.kind = "tuple" /\ Len(lastOp.res.contents) = 1)
    => LET rec == objs[lastOp.obj]
           m == lastOp.res.contents[1].metadata
           d == lastOp.res.contents[1].data IN
       /\ rec.vclock = lastOp.res.vclock
       /\ rec.metadata = [m EXCEPT !.hasIndex = TRUE]
       /\ rec.data = DecodingOf(rec, m, d)
       /\ rec.exists
       /\ SiblingsOf(Here, lastOp.obj) = <<>>

\* C13: store on a record whose key is null issues exactly one put_new and no
\* put; when the call succeeds the record has the returned key, vector clock
\* and metadata, and exists() is true.
C13_StoreWithoutKey ==
    [][(lastOp'.op = "store" /\ objs[lastOp'.obj].key = PyNone)
        => /\ lastOp'.calls = <<TransportCall("put_new", 0)>>
           /\ lastOp'.err = "" =>
                 /\ objs'[lastOp'.obj].key = lastOp'.res.key
                 /\ objs'[lastOp'.obj].vclock = lastOp'.res.vclock
                 /\ objs'[lastOp'.obj].metadata = lastOp'.res.contents[1].metadata
                 /\ objs'[lastOp'.obj].exists]_vars

\* A store by put_new succeeded: the record has the key and the metadata of the
\* answer, and keeps the payload set before.
C13_Witness ==
    /\ lastOp.op = "store" /\ lastOp.calls = <<TransportCall("put_new", 0)>> /\ lastOp.err = ""
    /\ objs[lastOp.obj].key = PyStr("k") /\ objs[lastOp.obj].metadata = M2
    /\ objs[lastOp.obj].exists /\ objs[lastOp.obj].data = PyStr("x")

\* The get_sibling(i) that ends in lastOp' found a version tag in slot i.
FetchedSibling ==
    /\ lastOp'.op = "get_sibling" /\ lastOp'.err = ""
    /\ lastOp'.i < Len(SiblingsOf(Here, lastOp'.obj))
    /\ ~IsObject(SiblingsOf(Here, lastOp'.obj)[lastOp'.i + 1])

\* The get_sibling(i) that ends in lastOp' found a record in slot i.
ReadSibling ==
    /\ lastOp'.op = "get_sibling"
    /\ lastOp'.i < Len(SiblingsOf(Here, lastOp'.obj))
    /\ IsObject(SiblingsOf(Here, lastOp'.obj)[lastOp'.i + 1])

\* C14: get_sibling(i) on a slot that holds a version tag performs one reload
\* scoped to that tag; afterwards slot i of the shared list holds the new
\* record, every other slot is unchanged and the returned record holds the
\* same list.  On a slot that holds a record it returns that record, with no
\* transport call and no change of the list.
C14_FetchFillsSlot ==
    [][/\ FetchedSibling =>
            LET lid == objs[lastOp'.obj].siblings
                vtag == lists[lid][lastOp'.i + 1] IN
            /\ lastOp'.calls = <<TransportCall("get", vtag)>>
            /\ ~objs[lastOp'.ret].alive /\ objs'[lastOp'.ret].alive
            /\ lists'[lid][lastOp'.i + 1] = lastOp'.ret
            /\ \A j \in 1..Len(lists[lid]) :
                  j # lastOp'.i + 1 => lists'[lid][j] = lists[lid][j]
            /\ objs'[lastOp'.ret].siblings = lid
       /\ ReadSibling =>
            /\ lastOp'.ret = SiblingsOf(Here, lastOp'.obj)[lastOp'.i + 1]
            /\ lastOp'.calls = <<>>
            /\ lists' = lists /\ objs' = objs]_vars

\* The get_siblings call that returns in this step was made on a record just
\* populated from the version tags pc.tags.
ReturnsFromTags ==
    /\ pc.op = "get_siblings" /\ pc'.op = "idle" /\ lastOp'.err = ""
    /\ pc.tags # <<>>

\* C15 as stated: get_siblings on a record populated from a list of version
\* tags terminates when every transport read answers, fetches each tag of that
\* list exactly once, in index order, and on completion no slot of the
\* record's list holds a version tag.
C15_FetchesEveryTag ==
    /\ (pc.op = "get_siblings") ~> (pc.op = "idle")
    /\ [][ReturnsFromTags =>
            /\ pc.calls = [j \in 1..Len(pc.tags) |-> TransportCall("get", pc.tags[j])]
            /\ \A j \in 1..Len(SiblingsOf(Heap(objs', lists'), pc.obj)) :
                  IsObject(SiblingsOf(Heap(objs', lists'), pc.obj)[j])]_vars

\* C15 amended: the same for a list of at least two version tags; a list of
\* one tag is dropped by set_siblings, and get_siblings then fetches nothing
\* and returns the empty list.
C15_FetchesEveryKeptTag ==
    /\ (pc.op = "get_siblings") ~> (pc.op = "idle")
    /\ [][ReturnsFromTags =>
            /\ pc.calls = IF Len(pc.tags) >= 2
                          THEN [j \in 1..Len(pc.tags) |-> TransportCall("get", pc.tags[j])]
                          ELSE <<>>
            /\ Len(pc.tags) >= 2 =>
                  Len(SiblingsOf(Heap(objs', lists'), pc.obj)) = Len(pc.tags)
            /\ Len(pc.tags) < 2 => SiblingsOf(Heap(objs', lists'), pc.obj) = <<>>
            /\ \A j \in 1..Len(SiblingsOf(Heap(objs', lists'), pc.obj)) :
                  IsObject(SiblingsOf(Heap(objs', lists'), pc.obj)[j])]_vars

\* get_siblings returned after it fetched MaxTags versions, the last tag last.
C15_Witness ==
    /\ lastOp.op = "get_siblings" /\ lastOp.err = ""
    /\ Len(lastOp.calls) = MaxTags
    /\ lastOp.calls[MaxTags] = TransportCall("get", 0 - MaxTags)
    /\ \A j \in 1..MaxTags : IsObject(SiblingsOf(Here, lastOp.obj)[j])

C17_CountNeverOne ==
    \A o \in Records :
        /\ get_sibling_count(Here, o) # 1
        /\ has_siblings(Here, o) <=> get_sibling_count(Here, o) >= 2

\* populate was given a list of one version tag and the record holds no list.
C17_Witness ==
    /\ lastOp.op = "populate" /\ lastOp.res.kind = "list" /\ Len(lastOp.res.tags) = 1
    /\ get_sibling_count(Here, lastOp.obj) = 0 /\ ~has_siblings(Here, lastOp.obj)

\* C18: add_index followed by add_index with an equal (field, value) leaves
\* the index sequence as it was after the first call.
C18_AddIndexIdempotent ==
    [][(/\ lastOp.op = "add_index" /\ lastOp.err = ""
        /\ lastOp'.op = "add_index" /\ lastOp'.obj = lastOp.obj
        /\ lastOp'.field = lastOp.field /\ lastOp'.value = lastOp.value)
        => /\ lastOp'.err = ""
           /\ objs'[lastOp'.obj].metadata.index = objs[lastOp.obj].metadata.index
           /\ Contains(objs'[lastOp'.obj].metadata.index,
                       RiakIndexEntry(lastOp'.field, lastOp'.value))]_vars

\* add_index("f", 0) was the last call, the sequence is full and ("f", 0) is
\* its first entry: the call found the entry there.
C18_Witness ==
    /\ lastOp.op = "add_index" /\ lastOp.err = ""
    /\ lastOp.field = PyStr("f") /\ lastOp.value = PyInt(0)
    /\ Len(objs[1].metadata.index) = MaxIdx
    /\ objs[1].metadata.index[1] = RiakIndexEntry(PyStr("f"), PyInt(0))
    /\ NoDuplicates(objs[1].metadata.index)

\* C19: remove_index() with no argument leaves an empty index sequence, from
\* every index state, one with duplicates installed by set_indexes included.
C19_RemoveAllEmpties ==
    [][(lastOp'.op = "remove_index" /\ lastOp'.field = PyNone /\ lastOp'.value = PyNone)
        => /\ lastOp'.err = ""
           /\ objs'[lastOp'.obj].metadata.index = <<>>
           /\ get_indexes(objs'[lastOp'.obj]) = <<>>]_vars

\* remove_index() was the last call, on a record populated before, and the
\* index sequence is empty.
C19_Witness ==
    /\ lastOp.op = "remove_index" /\ lastOp.field = PyNone /\ lastOp.value = PyNone
    /\ lastOp.err = "" /\ objs[1].vclock # PyNone
    /\ objs[1].metadata.index = <<>>

\* The records populate has made of a tuple result: the populated record and
\* the records in its sibling list.
Materialized(o) ==
    {o} \cup {SiblingsOf(Here, o)[j] : j \in 1..Len(SiblingsOf(Here, o))}

\* C20: after populate of a tuple result of n >= 1 pairs, some of them without
\* the index key, the metadata of every materialized record (the populated
\* record and each sibling) has an index sequence, empty where the pair had
\* none, so that get_indexes and add_index on it do not fail.
C20_EveryRecordHasIndexes ==
    (/\ lastOp.op = "populate" /\ lastOp.err = ""
     /\ lastOp.res.kind = "tuple" /\ Len(lastOp.res.contents) >= 1)
    => \A r \in Materialized(lastOp.obj) :
          /\ objs[r].metadata.hasIndex
          /\ \A p \in Pairs : add_index(Here, r, p[1], p[2]).err = ""

\* C21: after every store that completes without a transport failure exists()
\* is true, also for a record constructed with a key and never read whose put
\* the transport answers with None.
C21_StoredRecordExists ==
    (lastOp.op = "store" /\ lastOp.err = "") => objs[lastOp.obj].exists

\* C22: get_sibling is stable under repetition: for every index i of a sibling
\* list built from version tags, get_sibling(i) followed at once by
\* get_sibling(i) on the same record returns the same record, and the second
\* call makes no transport call.
C22_GetSiblingStable ==
    [][(/\ lastOp.op = "get_sibling" /\ lastOp.err = ""
        /\ lastOp'.op = "get_sibling"
        /\ lastOp'.obj = lastOp.obj /\ lastOp'.i = lastOp.i)
        => /\ lastOp'.err = ""
           /\ lastOp'.ret = lastOp.ret
           /\ lastOp'.calls = <<>>]_vars

\* C23: peer consistency, over every sequence of populate, get_sibling,
\* reload, head, store and delete: whenever a record s occurs in the sibling
\* list held by a record r, s holds that same list instance.
C23_PeersHoldTheList ==
    \A r \in Records :
        \A j \in 1..Len(SiblingsOf(Here, r)) :
            LET s == SiblingsOf(Here, r)[j] IN
            IsObject(s) => objs[s].siblings = objs[r].siblings

====
